---- MODULE Spec2Model ----
(***************************************************************************)
(* CapScript.py: the caption search pipeline.  main() resolves a list of   *)
(* video identifiers (get_channel_videos or get_video_ids_input), submits  *)
(* fetch_transcript for each to a ThreadPoolExecutor, handles the futures  *)
(* in the main thread as they complete (as_completed) and writes the       *)
(* accumulated report.                                                     *)
(*                                                                         *)
(* Python strings are modelled as sequences of one-character strings, so   *)
(* that lower(), split(), strip() and the substring test are computed.     *)
(***************************************************************************)
EXTENDS Integers, Sequences, FiniteSets, Bags, TLC

VARIABLES
    pc,                 \* position of the main thread
    search_type,        \* main: 'channel' or 'video' ("" before the prompt)
    host,               \* the host's search result pages for the channel
    transcriptApi,      \* YouTubeTranscriptApi's answer per known video id
    videosApi,          \* youtube.videos().list's answer per known video id
    max_results,        \* get_channel_videos: max_results
    files,              \* the files of the working directory: path -> content
    video_ids_input,    \* get_video_ids_input: what the user typed
    video_ids,          \* the identifier list (get_channel_videos / main)
    nextPageToken,      \* get_channel_videos: nextPageToken (0 is None)
    response,           \* get_channel_videos: the page being iterated
    item_idx,           \* get_channel_videos: position of the for loop
    searched,           \* get_channel_videos: number of search().list().execute() calls made
    probed,             \* the ids has_captions was called with, in order
    target_word,        \* main: target_word
    futures,            \* main: the submitted futures, in submission order
    handled,            \* futures as_completed has yielded and the loop body finished
    cur,                \* future whose loop body is waiting in get_video_details (0: none)
    match_count,        \* main: match_count
    all_video_details,  \* main: all_video_details
    log,                \* what has been printed
    output_file         \* transcripts/<target_word>.txt (<<>>: not written)

vars == <<pc, search_type, host, transcriptApi, videosApi, files, video_ids_input,
          max_results, video_ids,
          nextPageToken, response, item_idx, searched, probed, target_word,
          futures, handled, cur, match_count, all_video_details, log, output_file>>

-----------------------------------------------------------------------------
(* Bounds of the model *)

MaxRes == 2          \* max_results is drawn from 1..MaxRes
MaxHostItems == 3    \* items the host lists for a channel (enumeration)
MaxSegs == 2         \* caption segments of a transcript (filter)
MaxTextLen == 2      \* characters of a caption text or a target phrase (filter)
MaxInputLen == 3     \* characters typed at the video id prompt (input)
MaxFileLen == 3      \* characters of the file of video ids (input)
MaxExtra == 1        \* video ids beyond MAX_WORKERS (worker pool)

(* Program constants *)

MAX_WORKERS == 10

-----------------------------------------------------------------------------
(* Strings *)

Range(s) == {s[i] : i \in 1..Len(s)}

SeqsUpTo(S, n) == UNION {[1..k -> S] : k \in 0..n}

\* characters that are letters with a case (the others are whitespace and
\* punctuation)
Cased(c) == c \notin {" ", "\n", ",", ".", "[", "]", "_", "="}

\* str.lower() of one character that lowers the same way wherever it stands
LowerChar(c) == CASE c = "H" -> "h" [] c = "I" -> "i" [] OTHER -> c

\* str.lower() of the capital sigma at s[i] ("SIGMA", U+03A3): the final sigma
\* ("final_sigma", U+03C2) after a cased letter and not before one, else the
\* small sigma ("sigma", U+03C3)
LowerSigma(s, i) ==
    IF /\ i > 1
       /\ Cased(s[i - 1])
       /\ (i = Len(s) \/ ~Cased(s[i + 1]))
    THEN "final_sigma"
    ELSE "sigma"

\* str.lower()
lower(s) ==
    [i \in 1..Len(s) |-> IF s[i] = "SIGMA" THEN LowerSigma(s, i) ELSE LowerChar(s[i])]

\* variant: an empty string is found nowhere
Contains_NonEmpty(sub, s) ==
    \E i \in 0..(Len(s) - Len(sub)) : sub # <<>> /\ SubSeq(s, i + 1, i + Len(sub)) = sub

\* Python's `sub in s` for strings
Contains(sub, s) ==
    \E i \in 0..(Len(s) - Len(sub)) : SubSeq(s, i + 1, i + Len(sub)) = sub

IsSpace(c) == c \in {" ", "\n"}

RECURSIVE lstrip(_)
lstrip(s) == IF s # <<>> /\ IsSpace(Head(s)) THEN lstrip(Tail(s)) ELSE s

RECURSIVE rstrip(_)
rstrip(s) ==
    IF s # <<>> /\ IsSpace(s[Len(s)]) THEN rstrip(SubSeq(s, 1, Len(s) - 1)) ELSE s

\* variant: only the leading whitespace is removed
strip_LeadingOnly(s) == lstrip(s)

\* str.strip()
strip(s) == rstrip(lstrip(s))

\* variant: the empty pieces are left out, as str.split() without a separator does
RECURSIVE split_SkipEmpty(_, _)
split_SkipEmpty(s, sep) ==
    IF \E i \in 1..Len(s) : s[i] = sep
    THEN LET i == CHOOSE k \in 1..Len(s) : s[k] = sep /\ \A j \in 1..(k - 1) : s[j] # sep
             rest == split_SkipEmpty(SubSeq(s, i + 1, Len(s)), sep)
         IN  IF i = 1 THEN rest ELSE <<SubSeq(s, 1, i - 1)>> \o rest
    ELSE IF s = <<>> THEN <<>> ELSE <<s>>

\* str.split(sep): the pieces between the occurrences of sep (always >= 1 piece)
RECURSIVE split(_, _)
split(s, sep) ==
    IF \E i \in 1..Len(s) : s[i] = sep
    THEN LET i == CHOOSE k \in 1..Len(s) : s[k] = sep /\ \A j \in 1..(k - 1) : s[j] # sep
         IN  <<SubSeq(s, 1, i - 1)>> \o split(SubSeq(s, i + 1, Len(s)), sep)
    ELSE <<s>>

\* file.readlines(): the lines, each keeping its newline; none for an empty file
RECURSIVE readlines(_)
readlines(s) ==
    IF s = <<>> THEN <<>>
    ELSE IF \E i \in 1..Len(s) : s[i] = "\n"
    THEN LET i == CHOOSE k \in 1..Len(s) : s[k] = "\n" /\ \A j \in 1..(k - 1) : s[j] # "\n"
         IN  <<SubSeq(s, 1, i)>> \o readlines(SubSeq(s, i + 1, Len(s)))
    ELSE <<s>>

-----------------------------------------------------------------------------
(* The external world: what the collaborators answer *)

X == <<"x">>
Y == <<"y">>
Z == <<"z">>

\* the videos the transcript service and the host know; any other id is unknown
KnownIds == {X, Y, Z}

Seg(start, text) == [start |-> start, text |-> text]

ApiOk(items) == [kind |-> "ok", items |-> items]
ApiNone == [kind |-> "none", items |-> <<>>]
ApiError == [kind |-> "error", items |-> <<>>]

\* the transcript each known video has when its captions are available
TranscriptOf(v) ==
    CASE v = X -> <<Seg(12, <<"H", "i">>), Seg(75, <<"h">>), Seg(3700, <<"h", "I">>)>>
      [] v = Y -> <<Seg(0, <<"a">>), Seg(61, <<"H">>)>>
      [] OTHER -> <<Seg(5, <<"i">>)>>

TranscriptAnswers(v) == {ApiOk(TranscriptOf(v)), ApiNone, ApiError}

\* YouTubeTranscriptApi.get_transcript(video_id, languages=[language_code]):
\* the segments, NoTranscriptFound/TranscriptsDisabled ("none"), or another error
get_transcript(video_id) ==
    IF video_id \in DOMAIN transcriptApi THEN transcriptApi[video_id] ELSE ApiError

\* youtube.videos().list(part="snippet,statistics", id=video_id).execute():
\* "ok" has one item; an unknown/deleted video has none, "error" is an HttpError
videos_list(video_id) ==
    IF video_id \in DOMAIN videosApi THEN videosApi[video_id] ELSE "empty"

\* the files of the working directory in a run of main: path -> content
Files ==
    (<<"e">> :> <<>>) @@
    (<<"f">> :> <<"x", "\n", " ", "y", "\n", "x", "\n">>)

\* os.path.isfile
isfile(path) == path \in DOMAIN files

\* 'preferences.ini'
PreferencesPath ==
    <<"p", "r", "e", "f", "e", "r", "e", "n", "c", "e", "s", ".", "i", "n", "i">>

\* the keys the user may have: get_api_key returns only a key that is not
\* blank and that is_valid_api_key accepted
ApiKeys == {<<"K">>}

IniSection == <<"[", "P", "r", "e", "f", "e", "r", "e", "n", "c", "e", "s", "]">>
IniOption == <<"a", "p", "i", "_", "k", "e", "y", " ", "=", " ">>

\* configparser's write of the section Preferences with the option API_KEY:
\* the option name in lower case, a blank line after the section
IniText(api_key) ==
    IniSection \o <<"\n">> \o IniOption \o api_key \o <<"\n", "\n">>

\* save_preferences: preferences.ini is written (created or replaced)
save_preferences(api_key) ==
    [path \in DOMAIN files \cup {PreferencesPath} |->
        IF path = PreferencesPath THEN IniText(api_key) ELSE files[path]]

\* load_preferences: the stored key, '' when there is no file or no such option
load_preferences ==
    IF ~isfile(PreferencesPath) THEN <<>>
    ELSE LET lines == readlines(files[PreferencesPath])
         IN  IF /\ Len(lines) >= 2
                /\ strip(lines[1]) = IniSection
                /\ Len(lines[2]) >= Len(IniOption)
                /\ SubSeq(lines[2], 1, Len(IniOption)) = IniOption
             THEN strip(SubSeq(lines[2], Len(IniOption) + 1, Len(lines[2])))
             ELSE <<>>

\* the working directory once main has the API key: preferences.ini is there
WorkingDirs == {Files @@ (PreferencesPath :> IniText(api_key)) : api_key \in ApiKeys}

-----------------------------------------------------------------------------
(* Pure functions of CapScript.py *)

Returned(v) == [kind |-> "return", value |-> v]
Raised == [kind |-> "raise", value |-> <<>>]

\* variant: the comparison without lower()
Matches_CaseSensitive(word, item) == Contains(word, item.text)

\* line 184: target_word.lower() in item["text"].lower()
Matches(word, item) == Contains(lower(word), lower(item.text))

\* line 184: the list comprehension over the transcript
Filter(transcript, word) == SelectSeq(transcript, LAMBDA item : Matches(word, item))

\* fetch_transcript: the matching segments; [] when the video has no transcript
\* in the language or transcripts are disabled; any other exception propagates
fetch_transcript(video_id, word) ==
    LET r == get_transcript(video_id)
    IN  CASE r.kind = "ok" -> Returned(Filter(r.items, word))
          [] r.kind = "none" -> Returned(<<>>)
          [] OTHER -> Raised

\* variant: the probe that accepts every video
has_captions_Always(video_id) == TRUE

\* has_captions: True when the transcript can be listed, found and fetched,
\* False on any exception
has_captions(video_id) == get_transcript(video_id).kind = "ok"

\* get_video_details: the snippet fields of response["items"][0]; an HttpError,
\* or an IndexError when the host has no such video, propagates
get_video_details(video_id) ==
    IF videos_list(video_id) = "ok"
    THEN Returned([title |-> <<"T">> \o video_id, channel_title |-> <<"C">>])
    ELSE Raised

\* format_time: HH:MM:SS as the three numbers printed with two digits each
format_time(seconds) ==
    LET hours == seconds \div 3600
        remainder == seconds % 3600
    IN  <<hours, remainder \div 60, remainder % 60>>

\* lines 234-244: the text block of one matched video
VideoDetails(video_id, details, transcript_items) ==
    [video_id |-> video_id,
     title |-> details.title,
     channel_title |-> details.channel_title,
     timestamps |-> [k \in 1..Len(transcript_items) |->
                        <<format_time(transcript_items[k].start), transcript_items[k].text>>]]

\* get_video_ids_from_file: one stripped identifier per line (it is only called
\* for a path os.path.isfile accepted, so the file is there to open)
get_video_ids_from_file(file_path) ==
    LET lines == readlines(files[file_path])
    IN  [k \in 1..Len(lines) |-> strip(lines[k])]

\* get_video_ids_input: a comma-separated list, else a file, else the input itself
get_video_ids_input(typed) ==
    IF "," \in Range(typed)
    THEN LET parts == split(typed, ",")
         IN  [k \in 1..Len(parts) |-> strip(parts[k])]
    ELSE IF isfile(typed)
    THEN get_video_ids_from_file(typed)
    ELSE <<strip(typed)>>

-----------------------------------------------------------------------------
(* The host's pages *)

Video(id) == [kind |-> "video", id |-> id]
Channel == [kind |-> "channel", id |-> <<>>]

Page(items, token) == [items |-> items, nextPageToken |-> token]

\* items cut into consecutive pages after the positions in cuts; every page but
\* the last carries the token of the next one
Pages(items, cuts) ==
    LET m == Cardinality(cuts)
        cut(k) == CHOOSE c \in cuts : Cardinality({d \in cuts : d < c}) = k - 1
        lo(k) == IF k = 1 THEN 0 ELSE cut(k - 1)
        hi(k) == IF k = m + 1 THEN Len(items) ELSE cut(k)
    IN  [k \in 1..(m + 1) |->
            Page(SubSeq(items, lo(k) + 1, hi(k)), IF k = m + 1 THEN 0 ELSE k + 1)]

\* youtube.search().list(..., pageToken=nextPageToken).execute() when it succeeds
search_list(token) == host[IF token = 0 THEN 1 ELSE token]

NoPage == Page(<<>>, 0)

-----------------------------------------------------------------------------
(* get_channel_videos *)

\* variant: the membership test left out
NotCollected_Always(video_id) == TRUE

\* line 155: video_id not in video_ids
NotCollected(video_id) == video_id \notin Range(video_ids)

\* variant: the bound compared with > instead of >=
EnoughCollected_Off(ids) == Len(ids) > max_results

\* lines 142 and 158: the result sequence has reached max_results
EnoughCollected(ids) == Len(ids) >= max_results

\* lines 144-150: one page is requested and answered
SearchPage ==
    /\ pc = "enum_while"
    /\ ~EnoughCollected(video_ids)
    /\ response' = search_list(nextPageToken)
    /\ searched' = searched + 1
    /\ item_idx' = 1
    /\ pc' = "enum_for"
    /\ UNCHANGED <<search_type, host, transcriptApi, videosApi, files, video_ids_input,
                   max_results, video_ids,
                   nextPageToken, probed, target_word, futures, handled, cur,
                   match_count, all_video_details, log, output_file>>

\* variant: the error fails the whole enumeration, the ids collected are dropped
SearchHttpError_Discard ==
    /\ pc = "enum_while"
    /\ ~EnoughCollected(video_ids)
    /\ searched' = searched + 1
    /\ log' = log \cup {<<"An HTTP error occurred", <<>>>>}
    /\ pc' = "enum_end"
    /\ video_ids' = <<>>
    /\ UNCHANGED <<search_type, host, transcriptApi, videosApi, files, video_ids_input,
                   max_results,
                   nextPageToken, response, item_idx, probed, target_word, futures,
                   handled, cur, match_count, all_video_details, output_file>>

\* lines 144-150 and 163-165: the request raises HttpError; printed, break
SearchHttpError ==
    /\ pc = "enum_while"
    /\ ~EnoughCollected(video_ids)
    /\ searched' = searched + 1
    /\ log' = log \cup {<<"An HTTP error occurred", <<>>>>}
    /\ pc' = "enum_end"
    /\ UNCHANGED <<search_type, host, transcriptApi, videosApi, files, video_ids_input,
                   max_results, video_ids,
                   nextPageToken, response, item_idx, probed, target_word, futures,
                   handled, cur, match_count, all_video_details, output_file>>

\* line 142: the while condition is false
WhileExit ==
    /\ pc = "enum_while"
    /\ EnoughCollected(video_ids)
    /\ pc' = "enum_end"
    /\ UNCHANGED <<search_type, host, transcriptApi, videosApi, files, video_ids_input,
                   max_results, video_ids,
                   nextPageToken, response, item_idx, searched, probed, target_word,
                   futures, handled, cur, match_count, all_video_details, log,
                   output_file>>

\* lines 152-159: one iteration of the for loop over response["items"]
ForItem ==
    /\ pc = "enum_for"
    /\ item_idx <= Len(response.items)
    /\ LET item == response.items[item_idx]
       IN  IF item.kind = "video"
           THEN LET video_id == item.id
                    probe == NotCollected(video_id)
                    ids == IF probe /\ has_captions(video_id)
                           THEN Append(video_ids, video_id)
                           ELSE video_ids
                IN  /\ video_ids' = ids
                    /\ probed' = IF probe THEN Append(probed, video_id) ELSE probed
                    /\ IF EnoughCollected(ids)
                       THEN pc' = "enum_after_for" /\ item_idx' = item_idx
                       ELSE pc' = pc /\ item_idx' = item_idx + 1
           ELSE /\ item_idx' = item_idx + 1
                /\ UNCHANGED <<video_ids, probed, pc>>
    /\ UNCHANGED <<search_type, host, transcriptApi, videosApi, files, video_ids_input,
                   max_results,
                   nextPageToken, response, searched, target_word, futures, handled,
                   cur, match_count, all_video_details, log, output_file>>

\* lines 160-162: after the for loop (exhausted or left by break)
AfterFor ==
    /\ \/ pc = "enum_after_for"
       \/ pc = "enum_for" /\ item_idx > Len(response.items)
    /\ nextPageToken' = response.nextPageToken
    /\ pc' = IF response.nextPageToken = 0 THEN "enum_end" ELSE "enum_while"
    /\ UNCHANGED <<search_type, host, transcriptApi, videosApi, files, video_ids_input,
                   max_results, video_ids,
                   response, item_idx, searched, probed, target_word, futures, handled,
                   cur, match_count, all_video_details, log, output_file>>

\* lines 167-169: nothing collected; message and exit()
EnumExit ==
    /\ pc = "enum_end"
    /\ video_ids = <<>>
    /\ log' = log \cup {<<"No videos found with captions in the selected language", <<>>>>}
    /\ pc' = "exit"
    /\ UNCHANGED <<search_type, host, transcriptApi, videosApi, files, video_ids_input,
                   max_results, video_ids,
                   nextPageToken, response, item_idx, searched, probed, target_word,
                   futures, handled, cur, match_count, all_video_details, output_file>>

\* line 171: return video_ids
EnumReturn ==
    /\ pc = "enum_end"
    /\ video_ids # <<>>
    /\ pc' = "prompt_word"
    /\ UNCHANGED <<search_type, host, transcriptApi, videosApi, files, video_ids_input,
                   max_results, video_ids,
                   nextPageToken, response, item_idx, searched, probed, target_word,
                   futures, handled, cur, match_count, all_video_details, log,
                   output_file>>

-----------------------------------------------------------------------------
(* main *)

\* what the user may type at the video id prompt
UserInputs ==
    { <<"x", ",", "z", ",", "y">>,
      <<"x", ",", " ", "x">>,
      <<"y">>,
      <<>>,
      <<"f">>,
      <<"e">>,
      PreferencesPath }

\* what the user may type as the word to search
Phrases == { <<"h", "i">>, <<>> }

NotWritten == [written |-> FALSE, name |-> <<>>, lines |-> <<>>]

Future(video_id) ==
    [video_id |-> video_id, state |-> "pending", outcome |-> Returned(<<>>),
     fetches |-> 0, details |-> 0]

\* lines 190-194: the stored API key is kept, or get_api_key returns a valid
\* key and save_preferences writes it
LoadPreferences ==
    /\ pc = "load_preferences"
    /\ \/ /\ load_preferences # <<>>
          /\ files' = files
       \/ \E api_key \in ApiKeys : files' = save_preferences(api_key)
    /\ pc' = "prompt_search_type"
    /\ UNCHANGED <<search_type, host, transcriptApi, videosApi, video_ids_input,
                   max_results, video_ids,
                   nextPageToken, response, item_idx, searched, probed, target_word,
                   futures, handled, cur, match_count, all_video_details, log,
                   output_file>>

\* lines 196-202: 'channel' is chosen; get_max_results returns a positive number
PromptChannel ==
    /\ pc = "prompt_search_type"
    /\ search_type' = "channel"
    /\ \E m \in 1..MaxRes : max_results' = m
    /\ video_ids' = <<>>
    /\ nextPageToken' = 0
    /\ pc' = "enum_while"
    /\ UNCHANGED <<host, transcriptApi, videosApi, files, video_ids_input,
                   response, item_idx, searched, probed,
                   target_word, futures, handled, cur, match_count, all_video_details,
                   log, output_file>>

\* lines 196 and 203-205: 'video' is chosen; the ids come from get_video_ids_input
PromptVideoFrom(inputs) ==
    /\ pc = "prompt_search_type"
    /\ search_type' = "video"
    /\ \E typed \in inputs :
           /\ video_ids_input' = typed
           /\ video_ids' = get_video_ids_input(typed)
    /\ pc' = "prompt_word"
    /\ UNCHANGED <<host, transcriptApi, videosApi, files,
                   max_results, nextPageToken, response,
                   item_idx, searched, probed, target_word, futures, handled, cur,
                   match_count, all_video_details, log, output_file>>

PromptVideo == PromptVideoFrom(UserInputs)

\* lines 207-225: the word is read, the accumulators are reset and the
\* executor is created
StartSearch ==
    /\ pc = "prompt_word"
    /\ \E word \in Phrases : target_word' = word
    /\ all_video_details' = <<>>
    /\ match_count' = 0
    /\ futures' = <<>>
    /\ handled' = {}
    /\ cur' = 0
    /\ pc' = "submit"
    /\ UNCHANGED <<search_type, host, transcriptApi, videosApi, files, video_ids_input,
                   max_results, video_ids,
                   nextPageToken, response, item_idx, searched, probed, log, output_file>>

\* line 226: the comprehension submits fetch_transcript for the next entry of
\* video_ids; the worker threads run while the other entries are submitted
Submit ==
    /\ pc = "submit"
    /\ Len(futures) < Len(video_ids)
    /\ futures' = Append(futures, Future(video_ids[Len(futures) + 1]))
    /\ UNCHANGED <<pc, search_type, host, transcriptApi, videosApi, files, video_ids_input,
                   max_results, video_ids,
                   nextPageToken, response, item_idx, searched, probed, target_word,
                   handled, cur, match_count, all_video_details, log, output_file>>

\* lines 226-227: every entry is submitted; the loop over as_completed begins
AsCompletedStart ==
    /\ pc = "submit"
    /\ Len(futures) = Len(video_ids)
    /\ pc' = "as_completed"
    /\ UNCHANGED <<search_type, host, transcriptApi, videosApi, files, video_ids_input,
                   max_results, video_ids,
                   nextPageToken, response, item_idx, searched, probed, target_word,
                   futures, handled, cur, match_count, all_video_details, log,
                   output_file>>

\* variant: the executor does not keep track of its busy threads
InFlight_Untracked == {}

\* the worker threads of the executor that are running a submitted call
InFlight == {i \in DOMAIN futures : futures[i].state = "running"}

\* ThreadPoolExecutor: a free worker thread takes a submitted call
WorkerStart ==
    /\ \E i \in DOMAIN futures :
           /\ futures[i].state = "pending"
           /\ Cardinality(InFlight) < MAX_WORKERS
           /\ futures' = [futures EXCEPT ![i].state = "running"]
    /\ UNCHANGED <<pc, search_type, host, transcriptApi, videosApi, files, video_ids_input,
                   max_results,
                   video_ids, nextPageToken, response, item_idx, searched, probed,
                   target_word, handled, cur, match_count, all_video_details, log,
                   output_file>>

\* variant: the worker itself adds its matches to the shared counter
WorkerFinish_Counts ==
    /\ \E i \in DOMAIN futures :
           /\ futures[i].state = "running"
           /\ futures' = [futures EXCEPT
                  ![i].state = "finished",
                  ![i].outcome = fetch_transcript(futures[i].video_id, target_word),
                  ![i].fetches = @ + 1]
           /\ match_count' = match_count +
                  Len(fetch_transcript(futures[i].video_id, target_word).value)
    /\ UNCHANGED <<pc, search_type, host, transcriptApi, videosApi, files, video_ids_input,
                   max_results,
                   video_ids, nextPageToken, response, item_idx, searched, probed,
                   target_word, handled, cur, all_video_details, log,
                   output_file>>

\* the worker's fetch_transcript call returns or raises; the future is done
WorkerFinish ==
    /\ \E i \in DOMAIN futures :
           /\ futures[i].state = "running"
           /\ futures' = [futures EXCEPT
                  ![i].state = "finished",
                  ![i].outcome = fetch_transcript(futures[i].video_id, target_word),
                  ![i].fetches = @ + 1]
    /\ UNCHANGED <<pc, search_type, host, transcriptApi, videosApi, files, video_ids_input,
                   max_results,
                   video_ids, nextPageToken, response, item_idx, searched, probed,
                   target_word, handled, cur, match_count, all_video_details, log,
                   output_file>>

\* variant: the emptiness test left out
Truthy_Always(transcript_items) == TRUE

\* line 231: if transcript_items
Truthy(transcript_items) == transcript_items # <<>>

\* variant: = instead of +=
AddMatches_Assign(count, transcript_items) == Len(transcript_items)

\* line 232: match_count += len(transcript_items)
AddMatches(count, transcript_items) == count + Len(transcript_items)

\* variant: the except clause around the loop instead of inside it
OnException_Break(i) ==
    /\ log' = log \cup {<<"Error processing video ID", futures[i].video_id>>}
    /\ handled' = DOMAIN futures

\* variant: the exception is printed but the failed future is offered again
OnException_Again(i) ==
    /\ log' = log \cup {<<"Error processing video ID", futures[i].video_id>>}
    /\ handled' = handled

\* lines 248-249: the exception of one loop body is printed with its video id
\* and the loop goes on with the next completed future
OnException(i) ==
    /\ log' = log \cup {<<"Error processing video ID", futures[i].video_id>>}
    /\ handled' = handled \cup {i}

\* lines 227-232 and 246-249: as_completed yields a finished future; its result
\* is taken (or its exception caught); on a match the count is increased and
\* get_video_details is called
HandleCompletion ==
    /\ pc = "as_completed"
    /\ \E i \in DOMAIN futures \ handled :
           /\ futures[i].state = "finished"
           /\ IF futures[i].outcome.kind = "raise"
              THEN /\ OnException(i)
                   /\ UNCHANGED <<pc, cur, match_count, futures>>
              ELSE IF Truthy(futures[i].outcome.value)
              THEN /\ match_count' = AddMatches(match_count, futures[i].outcome.value)
                   /\ cur' = i
                   /\ pc' = "get_video_details"
                   /\ futures' = [futures EXCEPT ![i].details = @ + 1]
                   /\ UNCHANGED <<handled, log>>
              ELSE /\ handled' = handled \cup {i}
                   /\ UNCHANGED <<pc, cur, match_count, futures, log>>
    /\ UNCHANGED <<search_type, host, transcriptApi, videosApi, files, video_ids_input,
                   max_results, video_ids,
                   nextPageToken, response, item_idx, searched, probed, target_word,
                   all_video_details, output_file>>

\* lines 233-249: get_video_details returns and the block is appended, or it
\* raises and the exception is printed
DetailsReturn ==
    /\ pc = "get_video_details"
    /\ LET video_id == futures[cur].video_id
           r == get_video_details(video_id)
       IN  IF r.kind = "return"
           THEN /\ all_video_details' =
                       Append(all_video_details,
                              VideoDetails(video_id, r.value, futures[cur].outcome.value))
                /\ handled' = handled \cup {cur}
                /\ log' = log
           ELSE /\ OnException(cur)
                /\ all_video_details' = all_video_details
    /\ cur' = 0
    /\ pc' = "as_completed"
    /\ UNCHANGED <<search_type, host, transcriptApi, videosApi, files, video_ids_input,
                   max_results, video_ids,
                   nextPageToken, response, item_idx, searched, probed, target_word,
                   futures, match_count, output_file>>

\* variant: the loop left after its first iteration
AsCompletedExhausted_First == handled # {} \/ futures = <<>>

\* line 227: as_completed has yielded every future
AsCompletedExhausted == handled = DOMAIN futures

\* line 225: leaving the with block waits for every submitted call
ExecutorShutdown == \A i \in DOMAIN futures : futures[i].state = "finished"

\* lines 251-259: the count is printed and the report file written
WriteReport ==
    /\ pc = "as_completed"
    /\ AsCompletedExhausted
    /\ ExecutorShutdown
    /\ log' = log \cup {<<"Found a total of", match_count>>}
    /\ output_file' = [written |-> TRUE, name |-> target_word, lines |-> all_video_details]
    /\ pc' = "done"
    /\ UNCHANGED <<search_type, host, transcriptApi, videosApi, files, video_ids_input,
                   max_results, video_ids,
                   nextPageToken, response, item_idx, searched, probed, target_word,
                   futures, handled, cur, match_count, all_video_details>>

-----------------------------------------------------------------------------
(* The run of main() *)

\* the channel the host serves in a run of main: two pages, a channel entry
\* among the videos, one video listed twice
ChannelHost == Pages(<<Video(X), Channel, Video(Y), Video(X)>>, {2})

Worlds ==
    {f \in [KnownIds -> UNION {TranscriptAnswers(v) : v \in KnownIds}] :
        \A v \in KnownIds : f[v] \in TranscriptAnswers(v)}

InitLocals ==
    /\ search_type = ""
    /\ video_ids_input = <<>>
    /\ max_results = 0
    /\ video_ids = <<>>
    /\ nextPageToken = 0
    /\ response = NoPage
    /\ item_idx = 0
    /\ searched = 0
    /\ probed = <<>>
    /\ target_word = <<>>
    /\ futures = <<>>
    /\ handled = {}
    /\ cur = 0
    /\ match_count = 0
    /\ all_video_details = <<>>
    /\ log = {}
    /\ output_file = NotWritten

\* main() begins in a directory with or without a preferences.ini of an
\* earlier run
Init ==
    /\ pc = "load_preferences"
    /\ files \in {Files} \cup WorkingDirs
    /\ host = ChannelHost
    /\ transcriptApi \in Worlds
    /\ videosApi \in [KnownIds -> {"ok", "error"}]
    /\ InitLocals

Next ==
    \/ LoadPreferences
    \/ PromptChannel
    \/ PromptVideo
    \/ SearchPage
    \/ SearchHttpError
    \/ WhileExit
    \/ ForItem
    \/ AfterFor
    \/ EnumExit
    \/ EnumReturn
    \/ StartSearch
    \/ Submit
    \/ AsCompletedStart
    \/ WorkerStart
    \/ WorkerFinish
    \/ HandleCompletion
    \/ DetailsReturn
    \/ WriteReport

Spec == Init /\ [][Next]_vars

\* every call made by the run returns or raises and every thread keeps running
SpecLive == Spec /\ WF_vars(Next)

\* an external call made for the first submitted unit returns: its transcript
\* fetch in a worker, or its get_video_details call in the completion loop
Unit1Returns ==
    \/ /\ pc = "get_video_details"
       /\ cur = 1
       /\ pc' = "as_completed"
    \/ /\ 1 \in DOMAIN futures
       /\ futures[1].state = "running"
       /\ futures'[1].state = "finished"

\* every thread keeps running and every call returns or raises, except that
\* the calls made for the first unit may hang for ever
SpecHung == Spec /\ WF_vars(Next /\ ~Unit1Returns)

-----------------------------------------------------------------------------
(* get_channel_videos alone, over every small channel *)

ItemKinds == {Video(X), Video(Y), Channel}

Hosts ==
    UNION {{Pages(items, cuts) : cuts \in SUBSET (0..Len(items))} :
              items \in SeqsUpTo(ItemKinds, MaxHostItems)}

InitEnum ==
    /\ pc = "enum_while"
    /\ host \in Hosts
    /\ transcriptApi \in {f \in Worlds : f[Z] = ApiNone}
    /\ videosApi = [v \in KnownIds |-> "ok"]
    /\ search_type = "channel"
    /\ files \in WorkingDirs
    /\ video_ids_input = <<>>
    /\ max_results \in 1..MaxRes
    /\ video_ids = <<>>
    /\ nextPageToken = 0
    /\ response = NoPage
    /\ item_idx = 0
    /\ searched = 0
    /\ probed = <<>>
    /\ target_word = <<>>
    /\ futures = <<>>
    /\ handled = {}
    /\ cur = 0
    /\ match_count = 0
    /\ all_video_details = <<>>
    /\ log = {}
    /\ output_file = NotWritten

NextEnum ==
    \/ SearchPage
    \/ SearchHttpError
    \/ WhileExit
    \/ ForItem
    \/ AfterFor
    \/ EnumExit
    \/ EnumReturn

SpecEnum == InitEnum /\ [][NextEnum]_vars

\* every host call returns (or raises) and the loop takes its next step
SpecEnumLive == SpecEnum /\ WF_vars(NextEnum)

-----------------------------------------------------------------------------
(* fetch_transcript alone, over every small transcript and phrase *)

TextChars == {"h", "H", "SIGMA"}

Texts == SeqsUpTo(TextChars, MaxTextLen)

\* a transcript with the given caption texts, its segments ordered by start time
TranscriptWith(texts) == [k \in 1..Len(texts) |-> Seg(12 * k, texts[k])]

InitFilter ==
    /\ pc = "as_completed"
    /\ host = ChannelHost
    /\ \E texts \in SeqsUpTo(Texts, MaxSegs) :
           transcriptApi = (X :> ApiOk(TranscriptWith(texts)))
    /\ videosApi = [v \in KnownIds |-> "ok"]
    /\ search_type = "video"
    /\ files \in WorkingDirs
    /\ video_ids_input = <<>>
    /\ max_results = 0
    /\ video_ids = <<X>>
    /\ nextPageToken = 0
    /\ response = NoPage
    /\ item_idx = 0
    /\ searched = 0
    /\ probed = <<>>
    /\ target_word \in Texts
    /\ futures = <<Future(X)>>
    /\ handled = {}
    /\ cur = 0
    /\ match_count = 0
    /\ all_video_details = <<>>
    /\ log = {}
    /\ output_file = NotWritten

NextFilter ==
    \/ WorkerStart
    \/ WorkerFinish

SpecFilter == InitFilter /\ [][NextFilter]_vars

-----------------------------------------------------------------------------
(* get_video_ids_input alone, over every short input and every small file *)

InputChars == {"x", "y", ",", " ", "f"}

\* what may be typed at the prompt of line 120 (input() returns no newline)
Inputs == SeqsUpTo(InputChars, MaxInputLen) \cup {PreferencesPath}

FileChars == {"x", " ", "\n"}

\* the working directory at the prompt: preferences.ini alone, or also a file
\* named f
FileSystems ==
    LET preferences == {(PreferencesPath :> IniText(api_key)) : api_key \in ApiKeys}
    IN  preferences \cup
        {d @@ (<<"f">> :> content) :
            d \in preferences, content \in SeqsUpTo(FileChars, MaxFileLen)}

InitInput ==
    /\ pc = "prompt_search_type"
    /\ host = ChannelHost
    /\ transcriptApi = [v \in KnownIds |-> ApiNone]
    /\ videosApi = [v \in KnownIds |-> "ok"]
    /\ search_type = ""
    /\ files \in FileSystems
    /\ video_ids_input = <<>>
    /\ max_results = 0
    /\ video_ids = <<>>
    /\ nextPageToken = 0
    /\ response = NoPage
    /\ item_idx = 0
    /\ searched = 0
    /\ probed = <<>>
    /\ target_word = <<>>
    /\ futures = <<>>
    /\ handled = {}
    /\ cur = 0
    /\ match_count = 0
    /\ all_video_details = <<>>
    /\ log = {}
    /\ output_file = NotWritten

PromptVideoTyped == PromptVideoFrom(Inputs)

NextInput ==
    \/ PromptVideoTyped
    \/ StartSearch
    \/ Submit
    \/ AsCompletedStart

SpecInput == InitInput /\ [][NextInput]_vars

-----------------------------------------------------------------------------
(* The executor alone, with more submitted calls than worker threads *)

\* line 226 is about to submit one call per id of a list of
\* MAX_WORKERS + MaxExtra ids
InitPool ==
    /\ pc = "submit"
    /\ host = <<>>
    /\ transcriptApi = (X :> ApiNone)
    /\ videosApi = (X :> "ok")
    /\ search_type = "video"
    /\ files \in WorkingDirs
    /\ video_ids_input = <<>>
    /\ max_results = 0
    /\ video_ids = [i \in 1..(MAX_WORKERS + MaxExtra) |-> X]
    /\ nextPageToken = 0
    /\ response = NoPage
    /\ item_idx = 0
    /\ searched = 0
    /\ probed = <<>>
    /\ target_word = <<"h", "i">>
    /\ futures = <<>>
    /\ handled = {}
    /\ cur = 0
    /\ match_count = 0
    /\ all_video_details = <<>>
    /\ log = {}
    /\ output_file = NotWritten

NextPool ==
    \/ Submit
    \/ WorkerStart
    \/ WorkerFinish

\* the worker threads keep running: a free one takes a submitted call, and
\* every transcript fetch returns or raises
SpecPool == InitPool /\ [][NextPool]_vars /\ WF_vars(NextPool)

-----------------------------------------------------------------------------
(* Properties of the coordinator (main, lines 225-257) *)

\* the transcript fetch of v raises an exception fetch_transcript does not catch
FetchRaises(v) == get_transcript(v).kind = "error"

\* v has a transcript and at least one of its segments passes the filter
HasMatch(v) ==
    /\ get_transcript(v).kind = "ok"
    /\ Filter(get_transcript(v).items, target_word) # <<>>

\* the metadata lookup of v succeeds
MetadataOk(v) == videos_list(v) = "ok"

\* a unit of work whose transcript fetch, filter and metadata fetch all succeed
GoodUnit(v) == HasMatch(v) /\ MetadataOk(v)

CountRecords(lines, v) == Cardinality({k \in DOMAIN lines : lines[k].video_id = v})

Units(S, v) == {i \in S : futures[i].video_id = v}

ErrorLogged(v) == <<"Error processing video ID", v>> \in log

\* the ids submitted so far, in submission order
SubmittedIds == [i \in DOMAIN futures |-> futures[i].video_id]

\* the submission of line 226 is under way or over: the ids submitted are the
\* first entries of video_ids, and all of them once the loop of line 227 runs
SubmittedInOrder ==
    /\ Len(SubmittedIds) <= Len(video_ids)
    /\ SubmittedIds = SubSeq(video_ids, 1, Len(SubmittedIds))
    /\ pc \in {"as_completed", "get_video_details", "done"} => SubmittedIds = video_ids

\* C1: an error raised by the transcript fetch or the metadata fetch of one
\* identifier is caught and printed with that identifier, and it costs no other
\* unit its record: at any moment every handled unit whose fetches succeed with
\* a match has its record in the buffer, and once the report is written it holds
\* a record for every such submitted unit.  The batch is not aborted: after an
\* error the run can always take a further step until the report is written.
C1_ErrorIsolation ==
    /\ ((\E v \in Range(video_ids) : ErrorLogged(v)) /\ pc # "done") => ENABLED Next
    /\ \A i \in handled :
           LET v == futures[i].video_id
           IN  (FetchRaises(v) \/ (HasMatch(v) /\ ~MetadataOk(v))) => ErrorLogged(v)
    /\ \A v \in Range(video_ids) :
           GoodUnit(v) =>
               CountRecords(all_video_details, v) >= Cardinality(Units(handled, v))
    /\ pc = "done" =>
           \A v \in Range(video_ids) :
               GoodUnit(v) =>
                   CountRecords(output_file.lines, v) >= Cardinality(Units(DOMAIN futures, v))

\* the run is over, one unit's transcript fetch raised and one unit's metadata
\* fetch raised, both were printed, and two other units have their records
C1_Witness ==
    /\ pc = "done"
    /\ \E i, j \in DOMAIN futures :
           /\ FetchRaises(futures[i].video_id) /\ ErrorLogged(futures[i].video_id)
           /\ HasMatch(futures[j].video_id) /\ ~MetadataOk(futures[j].video_id)
           /\ ErrorLogged(futures[j].video_id)
    /\ Len(output_file.lines) >= 1
    /\ Len(futures) = 3

RECURSIVE SumTimestamps(_)
SumTimestamps(lines) ==
    IF lines = <<>> THEN 0 ELSE Len(Head(lines).timestamps) + SumTimestamps(Tail(lines))

\* C2: between two loop bodies and at the end of the batch, the match count is
\* the number of matched segments of the records in the report buffer: the
\* count is increased and the record appended together, or neither.
C2_CountEqualsReport ==
    pc \in {"as_completed", "done"} => match_count = SumTimestamps(all_video_details)

\* C3: no video id is submitted twice and the report holds at most one record
\* per video id.
C3_NoDuplicates ==
    /\ \A i, j \in DOMAIN futures :
           futures[i].video_id = futures[j].video_id => i = j
    /\ \A k, l \in DOMAIN all_video_details :
           all_video_details[k].video_id = all_video_details[l].video_id => k = l

TotalPrinted == \E e \in log : e[1] = "Found a total of"

\* C4: the report is written and the total printed only when every submitted
\* call has finished (returned or raised) and every future's loop body is over.
C4_JoinBeforeWrite ==
    (output_file.written \/ TotalPrinted) =>
        /\ SubmittedIds = video_ids
        /\ \A i \in DOMAIN futures : futures[i].state = "finished" /\ i \in handled
        /\ cur = 0

\* the report is written after three units, one of which raised
C4_Witness ==
    /\ output_file.written
    /\ Len(futures) = 3
    /\ \E i \in DOMAIN futures : futures[i].outcome.kind = "raise"
    /\ output_file.lines # <<>>

\* the matched segments of v as a record lists them
ExpectedTimestamps(v) ==
    LET items == Filter(get_transcript(v).items, target_word)
    IN  [k \in 1..Len(items) |-> <<format_time(items[k].start), items[k].text>>]

\* C5: at the end of the batch the report holds a record for a submitted id
\* exactly when its transcript fetch succeeded, the filter kept a segment and
\* the metadata fetch succeeded (one record per submission of that id); a
\* record lists the filter's result in transcript order, and there are never
\* more records than submitted units.
C5_ReportContent ==
    /\ Len(all_video_details) <= Len(futures)
    /\ pc = "done" =>
           /\ output_file.lines = all_video_details
           /\ \A v \in Range(video_ids) :
                  CountRecords(output_file.lines, v) =
                      IF GoodUnit(v) THEN Cardinality(Units(DOMAIN futures, v)) ELSE 0
           /\ \A k \in DOMAIN output_file.lines :
                  LET rec == output_file.lines[k]
                  IN  /\ rec.video_id \in Range(video_ids)
                      /\ rec.timestamps = ExpectedTimestamps(rec.video_id)

\* x matches "hi" twice, the first time at 00:00:12, y has a transcript without
\* a match and z has no transcript: the report is the one record of x
C5_Witness ==
    /\ pc = "done"
    /\ video_ids = <<X, Z, Y>>
    /\ get_transcript(Y).kind = "ok" /\ ~HasMatch(Y)
    /\ get_transcript(Z).kind = "none"
    /\ Len(output_file.lines) = 1
    /\ output_file.lines[1].video_id = X
    /\ Len(output_file.lines[1].timestamps) = 2
    /\ output_file.lines[1].timestamps[1][1] = <<0, 0, 12>>
    /\ match_count = 2

\* the loop body of lines 229-249 for one video id whose call has finished, run
\* to its end on the accumulators acc
UnitStep(acc, v) ==
    LET outcome == fetch_transcript(v, target_word)
        details == get_video_details(v)
    IN  IF outcome.kind = "return" /\ Truthy(outcome.value)
        THEN [count |-> AddMatches(acc.count, outcome.value),
              lines |-> IF details.kind = "return"
                        THEN Append(acc.lines, VideoDetails(v, details.value, outcome.value))
                        ELSE acc.lines]
        ELSE acc

\* the run that handles the futures one after the other in submission order
RECURSIVE InOrderRun(_, _)
InOrderRun(acc, ids) ==
    IF ids = <<>> THEN acc ELSE InOrderRun(UnitStep(acc, Head(ids)), Tail(ids))

BagOfSeq(q) == [e \in Range(q) |-> Cardinality({k \in DOMAIN q : q[k] = e})]

\* C9: whatever the interleaving of the workers and the order of completion,
\* the written report holds the same records, as a multiset, and the same match
\* count as the run that handles the ids one by one in list order.
C9_OrderIndependent ==
    pc = "done" =>
        LET ref == InOrderRun([count |-> 0, lines |-> <<>>], video_ids)
        IN  /\ BagOfSeq(output_file.lines) = BagOfSeq(ref.lines)
            /\ match_count = ref.count

\* a run whose report lists two records in the reverse of the list order
C9_Witness ==
    /\ pc = "done"
    /\ Len(output_file.lines) = 2
    /\ output_file.lines[1].video_id = Y
    /\ output_file.lines[2].video_id = X
    /\ video_ids = <<X, Z, Y>>

-----------------------------------------------------------------------------
(* Properties of the identifier source *)

\* C6: when the identifier source has produced no identifier, the run stops:
\* nothing is submitted and no report file is written.
C6_NoIdsIsTerminal ==
    (search_type # "" /\ video_ids = <<>>) =>
        /\ pc \notin {"as_completed", "get_video_details", "done"}
        /\ ~output_file.written

\* C7: get_channel_videos never holds the same video id twice, in any state of
\* the pagination loop and in what it returns.
C7_NoDuplicateIds ==
    \A i, j \in DOMAIN video_ids : video_ids[i] = video_ids[j] => i = j

\* x is listed on the first page and twice on the second; every item was
\* looked at and x was collected, and probed, once
C7_Witness ==
    /\ pc = "prompt_word"
    /\ Len(host) = 2
    /\ host[1].items = <<Video(X)>>
    /\ host[2].items = <<Video(X), Video(X)>>
    /\ video_ids = <<X>>
    /\ probed = <<X>>
    /\ searched = 2

RECURSIVE Flatten(_)
Flatten(pages) ==
    IF pages = <<>> THEN <<>> ELSE Head(pages).items \o Flatten(Tail(pages))

\* the first occurrence of every element of q, in order
RECURSIVE Distinct(_)
Distinct(q) ==
    IF q = <<>> THEN <<>>
    ELSE LET rest == Distinct(SubSeq(q, 1, Len(q) - 1))
         IN  IF q[Len(q)] \in Range(rest) THEN rest ELSE Append(rest, q[Len(q)])

\* the video has a transcript in the language, so the probe succeeds
Captioned(v) == v \in DOMAIN transcriptApi /\ transcriptApi[v].kind = "ok"

\* the ids of the channel's captioned videos, in the order the host lists them
CaptionedVideos ==
    LET items == SelectSeq(Flatten(host),
                           LAMBDA item : item.kind = "video" /\ Captioned(item.id))
    IN  Distinct([k \in 1..Len(items) |-> items[k].id])

HttpErrorPrinted == \E e \in log : e[1] = "An HTTP error occurred"

\* C8: the result never has more than max_results entries and holds only
\* captioned videos of the channel; when no request fails, the enumeration ends
\* with the first min(max_results, k) of the channel's k captioned videos, in
\* the host's order.
C8_EnumerationResult ==
    /\ Len(video_ids) <= max_results
    /\ \A k \in DOMAIN video_ids :
           /\ Video(video_ids[k]) \in Range(Flatten(host))
           /\ Captioned(video_ids[k])
    /\ (pc \in {"enum_end", "prompt_word", "exit"} /\ ~HttpErrorPrinted) =>
           LET n == IF Len(CaptionedVideos) < max_results
                    THEN Len(CaptionedVideos) ELSE max_results
           IN  video_ids = SubSeq(CaptionedVideos, 1, n)

\* two videos were asked for; the channel lists a channel entry, the captioned
\* x and the uncaptioned y, and exactly x is returned
C8_Witness ==
    /\ pc = "prompt_word"
    /\ ~HttpErrorPrinted
    /\ max_results = 2
    /\ Flatten(host) = <<Channel, Video(X), Video(Y)>>
    /\ ~Captioned(Y)
    /\ video_ids = <<X>>

-----------------------------------------------------------------------------
(* Properties of the filter (fetch_transcript, line 184) *)

\* the same letter, whatever the case or the form of the sigma
SameLetter(c, d) ==
    \/ c = d
    \/ {c, d} \subseteq {"h", "H"}
    \/ {c, d} \subseteq {"i", "I"}
    \/ {c, d} \subseteq {"SIGMA", "sigma", "final_sigma"}

\* text contains the phrase when the case of the letters is ignored
ContainsIgnoringCase(phrase, text) ==
    \E off \in 0..(Len(text) - Len(phrase)) :
        \A j \in 1..Len(phrase) : SameLetter(phrase[j], text[off + j])

\* the k-th smallest element of a set of numbers
Nth(S, k) == CHOOSE n \in S : Cardinality({m \in S : m < n}) = k - 1

\* C10: the filter returns exactly the segments whose text contains the phrase
\* ignoring case, each as often as it occurs and in transcript order.
C10_FilterExact ==
    futures[1].state = "finished" =>
        LET transcript == get_transcript(X).items
            result == futures[1].outcome.value
            hits == {i \in DOMAIN transcript :
                        ContainsIgnoringCase(target_word, transcript[i].text)}
        IN  /\ futures[1].outcome.kind = "return"
            /\ Len(result) = Cardinality(hits)
            /\ \A k \in DOMAIN result : result[k] = transcript[Nth(hits, k)]

-----------------------------------------------------------------------------
(* Termination of get_channel_videos *)

EnumerationOver == pc \in {"prompt_word", "exit"}

\* C11: the pagination loop ends (with the ids returned or with exit()); once
\* the result has max_results entries, and once a response came without a next
\* page token, no further page is requested, and with max_results entries no
\* further caption probe is made.
C11_EnumerationTerminates ==
    /\ <>EnumerationOver
    /\ [][/\ Len(video_ids) >= max_results =>
                 (searched' = searched /\ probed' = probed)
          /\ (searched > 0 /\ pc # "enum_while" /\ response.nextPageToken = 0) =>
                 searched' = searched]_vars

\* one video was asked for and returned after the first of two pages, with a
\* second video of that page neither probed nor collected
C11_Witness ==
    /\ pc = "prompt_word"
    /\ max_results = 1
    /\ video_ids = <<X>>
    /\ Len(host) = 2
    /\ host[1].items = <<Video(X), Video(Y)>>
    /\ Captioned(Y)
    /\ searched = 1
    /\ probed = <<X>>

\* C12: a failed page request ends the enumeration at once with the ids
\* collected so far: they are not changed by the failure or after it, no page
\* is requested and no video probed any more, and when there is at least one
\* id the function returns and exactly these ids are submitted to the search.
C12_PartialResultsKept ==
    [][/\ (~HttpErrorPrinted /\ HttpErrorPrinted') =>
              (video_ids' = video_ids /\ pc' = "enum_end")
       /\ HttpErrorPrinted =>
              (video_ids' = video_ids /\ searched' = searched /\ probed' = probed)
       /\ (HttpErrorPrinted /\ pc = "enum_end" /\ video_ids # <<>>) =>
              pc' = "prompt_word"
       /\ HttpErrorPrinted' => SubmittedInOrder']_vars

\* the second page request failed after x was collected from the first page,
\* and the search runs over x alone
C12_Witness ==
    /\ HttpErrorPrinted
    /\ pc = "as_completed"
    /\ searched = 2
    /\ video_ids = <<X>>
    /\ Len(futures) = 1
    /\ futures[1].video_id = X

\* the run ended before anything was submitted, with the message of line 167
StoppedBeforeDispatch ==
    /\ pc = "exit"
    /\ futures = <<>>
    /\ ~output_file.written
    /\ <<"No videos found with captions in the selected language", <<>>>> \in log

\* unit i is over: it left a record, was dropped without a match, or its error
\* was printed
UnitSettled(i) ==
    /\ futures[i].state = "finished"
    /\ i \in handled
    /\ LET v == futures[i].video_id
           o == futures[i].outcome
       IN  \/ o.kind = "raise" /\ ErrorLogged(v)
           \/ o.kind = "return" /\ o.value = <<>>
           \/ o.kind = "return" /\ o.value # <<>> /\ ~MetadataOk(v) /\ ErrorLogged(v)
           \/ /\ o.kind = "return" /\ o.value # <<>> /\ MetadataOk(v)
              /\ \E k \in DOMAIN output_file.lines : output_file.lines[k].video_id = v

\* every unit is over, the total is printed and the report is written
BatchReported ==
    /\ pc = "done"
    /\ SubmittedIds = video_ids
    /\ \A i \in DOMAIN futures : UnitSettled(i)
    /\ Len(output_file.lines) =
           Cardinality({i \in DOMAIN futures :
               /\ futures[i].outcome.kind = "return"
               /\ futures[i].outcome.value # <<>>
               /\ MetadataOk(futures[i].video_id)})
    /\ match_count >= 0
    /\ <<"Found a total of", match_count>> \in log
    /\ output_file.written

\* C13: when every call returns or raises, every run either stops before
\* dispatch with the "No videos found" message or reaches the end of the batch,
\* where every submitted unit has left a record, was dropped or had its error
\* printed, the total (possibly zero) is printed and the report is written.
C13_RunTerminates == <>(StoppedBeforeDispatch \/ BatchReported)

\* a finished run in which one unit's transcript fetch raised, another unit's
\* metadata fetch raised and a third left its record
C13_Witness ==
    /\ BatchReported
    /\ \E i, j, k \in DOMAIN futures :
           /\ futures[i].outcome.kind = "raise"
           /\ futures[j].outcome.kind = "return" /\ futures[j].outcome.value # <<>>
           /\ ~MetadataOk(futures[j].video_id)
           /\ futures[k].outcome.kind = "return" /\ futures[k].outcome.value # <<>>
           /\ MetadataOk(futures[k].video_id)

-----------------------------------------------------------------------------
(* The empty phrase *)

\* C14: with the empty target phrase the filter returns the whole transcript:
\* the same segments, in the same order, none left out.
C14_EmptyPhraseKeepsAll ==
    (futures[1].state = "finished" /\ target_word = <<>>) =>
        /\ futures[1].outcome.kind = "return"
        /\ futures[1].outcome.value = get_transcript(X).items

\* the empty phrase was searched in a transcript of two different segments,
\* one of them with an empty text
C14_Witness ==
    /\ futures[1].state = "finished"
    /\ target_word = <<>>
    /\ Len(futures[1].outcome.value) = 2
    /\ futures[1].outcome.value[1].text = <<>>
    /\ futures[1].outcome.value[2].text = <<"H", "SIGMA">>

-----------------------------------------------------------------------------
(* Explicit identifiers *)

\* the input read at the prompt has no comma and names no existing file
BareInput ==
    /\ search_type = "video"
    /\ "," \notin Range(video_ids_input)
    /\ ~isfile(video_ids_input)

\* t is s without its leading and trailing whitespace
Trimmed(s, t) ==
    /\ \E a, b \in 0..Len(s) :
           /\ a + b <= Len(s)
           /\ t = SubSeq(s, a + 1, Len(s) - b)
           /\ \A i \in 1..a : IsSpace(s[i])
           /\ \A i \in (Len(s) - b + 1)..Len(s) : IsSpace(s[i])
    /\ t # <<>> => ~IsSpace(t[1]) /\ ~IsSpace(t[Len(t)])

\* C15 as stated: an input with no comma that names no existing file is
\* rejected: no identifier list is produced from it and the prompt is repeated.
C15_BareInputRejected ==
    BareInput => (pc = "prompt_search_type" /\ video_ids = <<>>)

\* C15 as amended: an input with no comma that names no existing file is taken
\* as one identifier, the input without its surrounding whitespace; the prompt
\* is not repeated and the search is submitted for that one identifier.
C15_BareInputIsOneId ==
    BareInput =>
        /\ pc # "prompt_search_type"
        /\ Len(video_ids) = 1
        /\ Trimmed(video_ids_input, video_ids[1])
        /\ SubmittedInOrder

\* " x " was typed where a file f exists, and the search runs over x
C15_Witness ==
    /\ BareInput
    /\ <<"f">> \in DOMAIN files
    /\ video_ids_input = <<" ", "x", " ">>
    /\ video_ids = <<X>>
    /\ pc = "as_completed"
    /\ futures[1].video_id = X

\* the positions of the separator in s
Cuts(s, sep) == {i \in 1..Len(s) : s[i] = sep}

\* the k-th stretch of s between two neighbouring separators (or an end of s)
PieceOf(s, sep, k) ==
    LET from == IF k = 1 THEN 1 ELSE Nth(Cuts(s, sep), k - 1) + 1
        to == IF k = Cardinality(Cuts(s, sep)) + 1
              THEN Len(s)
              ELSE Nth(Cuts(s, sep), k) - 1
    IN  SubSeq(s, from, to)

\* the number of lines of a file: a last line need not end with a newline
LineCount(content) ==
    IF content = <<>> \/ content[Len(content)] = "\n"
    THEN Cardinality(Cuts(content, "\n"))
    ELSE Cardinality(Cuts(content, "\n")) + 1

\* C16: an input with commas yields one entry per comma-separated token, a file
\* one entry per line; the k-th entry is the k-th token (line) without its
\* surrounding whitespace, so nothing is removed, reordered or merged, repeated
\* identifiers and empty tokens included; the search is submitted entry by entry.
C16_ExplicitVerbatim ==
    search_type = "video" =>
        /\ "," \in Range(video_ids_input) =>
               /\ Len(video_ids) = Cardinality(Cuts(video_ids_input, ",")) + 1
               /\ \A k \in DOMAIN video_ids :
                      Trimmed(PieceOf(video_ids_input, ",", k), video_ids[k])
        /\ ("," \notin Range(video_ids_input) /\ isfile(video_ids_input)) =>
               /\ Len(video_ids) = LineCount(files[video_ids_input])
               /\ \A k \in DOMAIN video_ids :
                      Trimmed(PieceOf(files[video_ids_input], "\n", k), video_ids[k])
        /\ SubmittedInOrder

\* "x,x" was typed and the search is submitted for x twice
C16_Witness ==
    /\ search_type = "video"
    /\ video_ids_input = <<"x", ",", "x">>
    /\ video_ids = <<X, X>>
    /\ pc = "as_completed"
    /\ Len(futures) = 2
    /\ futures[1].video_id = X
    /\ futures[2].video_id = X

\* a file of two lines with the same identifier was read: x twice
C16_FileRead ==
    /\ search_type = "video"
    /\ video_ids_input = <<"f">>
    /\ isfile(video_ids_input)
    /\ files[video_ids_input] = <<"x", "\n", "x">>
    /\ video_ids = <<X, X>>

-----------------------------------------------------------------------------
(* Aggregation *)

\* what the worker threads write: the state and the result of each future
WorkerView == [i \in DOMAIN futures |->
                  <<futures[i].state, futures[i].outcome, futures[i].fetches>>]

\* the units whose loop body has begun: the handled ones and the current one
Taken == handled \cup (IF cur = 0 THEN {} ELSE {cur})

RECURSIVE SumMatches(_)
SumMatches(S) ==
    IF S = {} THEN 0
    ELSE LET i == CHOOSE k \in S : TRUE
         IN  (IF futures[i].outcome.kind = "return"
              THEN Len(futures[i].outcome.value) ELSE 0) + SumMatches(S \ {i})

\* the loop body of unit i has appended its block
Appended(i) ==
    /\ i \in handled
    /\ futures[i].outcome.kind = "return"
    /\ futures[i].outcome.value # <<>>
    /\ MetadataOk(futures[i].video_id)

\* C17: the counter and the report buffer change only in a step of the
\* completion loop of the main thread, one future at a time, and never in a
\* step of a worker; whatever the interleaving, the counter is the sum of the
\* results of the futures taken so far and the buffer has one block per future
\* whose body appended one.
C17_SerializedAggregation ==
    /\ [](/\ (pc = "get_video_details") = (cur # 0)
          /\ cur # 0 => (cur \in DOMAIN futures \ handled)
          /\ pc \in {"as_completed", "get_video_details", "done"} =>
                 /\ match_count = SumMatches(Taken)
                 /\ Len(all_video_details) =
                        Cardinality({i \in DOMAIN futures : Appended(i)}))
    /\ [][(match_count' # match_count \/ all_video_details' # all_video_details) =>
              /\ WorkerView' = WorkerView
              /\ pc \in {"as_completed", "get_video_details"}
              /\ match_count' # match_count =>
                     (pc = "as_completed" /\ cur = 0 /\ cur' # 0 /\
                      all_video_details' = all_video_details)
              /\ all_video_details' # all_video_details =>
                     (pc = "get_video_details" /\ handled' = handled \cup {cur} /\
                      match_count' = match_count /\
                      Len(all_video_details') = Len(all_video_details) + 1)]_vars

\* the main thread waits in get_video_details for one unit, with one block
\* already appended, while a worker is still fetching
C17_Witness ==
    /\ pc = "get_video_details"
    /\ Len(all_video_details) = 1
    /\ match_count > Len(all_video_details[1].timestamps)
    /\ \E i \in DOMAIN futures : futures[i].state = "running"

-----------------------------------------------------------------------------
(* Calls per unit of work *)

\* C18: the transcript of a submitted unit is fetched once (never again after
\* a failure) and its metadata at most once, and only after its transcript
\* fetch has returned a filtered result that is not empty.
C18_CallProtocol ==
    \A i \in DOMAIN futures :
        /\ futures[i].fetches = (IF futures[i].state = "finished" THEN 1 ELSE 0)
        /\ pc = "done" => futures[i].fetches = 1
        /\ futures[i].details \in {0, 1}
        /\ futures[i].details = 1 =>
               /\ futures[i].state = "finished"
               /\ futures[i].outcome.kind = "return"
               /\ futures[i].outcome.value # <<>>
               /\ HasMatch(futures[i].video_id)
               /\ i \in Taken

\* a finished run of three units: the transcript fetch of the first raised,
\* the second had no match, the third had its metadata fetched; each transcript
\* was fetched once
C18_Witness ==
    /\ pc = "done"
    /\ Len(futures) = 3
    /\ futures[1].outcome.kind = "raise"
    /\ futures[1].details = 0
    /\ futures[2].outcome = Returned(<<>>)
    /\ futures[2].details = 0
    /\ futures[3].details = 1
    /\ \A i \in DOMAIN futures : futures[i].fetches = 1

-----------------------------------------------------------------------------
(* The worker pool *)

\* the transcript fetches in flight
Fetching == {i \in DOMAIN futures : futures[i].state = "running"}

\* C19: at most MAX_WORKERS (10) transcript fetches are in flight, however many
\* ids are submitted; a submitted call is started only when fewer than 10 are
\* in flight, and every id is eventually submitted and its call started.
C19_BoundedParallelism ==
    /\ [](Cardinality(Fetching) <= MAX_WORKERS)
    /\ [][\A i \in DOMAIN futures :
              (futures[i].state = "pending" /\ futures'[i].state = "running") =>
                  Cardinality(Fetching) < MAX_WORKERS]_vars
    /\ <>(/\ SubmittedIds = video_ids
           /\ \A i \in DOMAIN futures : futures[i].state # "pending")

\* ten fetches are in flight and an eleventh submitted call waits
C19_Witness ==
    /\ Cardinality(Fetching) = MAX_WORKERS
    /\ \E i \in DOMAIN futures : futures[i].state = "pending"
    /\ ~ENABLED WorkerStart

-----------------------------------------------------------------------------
(* A call that never returns *)

\* every unit but the first has had its transcript fetched and its completion
\* handled
OthersSettled ==
    /\ pc \in {"as_completed", "get_video_details", "done"}
    /\ \A j \in DOMAIN futures \ {1} :
           futures[j].fetches = 1 /\ j \in handled

\* C20: when the calls made for one unit may hang for ever, every other
\* submitted unit still has its transcript fetched and its completion handled
\* (or the run has ended before dispatch).
C20_HungCallStallsOneSlot == <>(pc = "exit" \/ OthersSettled)

====
